---------------------------- MODULE Spec2Model ----------------------------
(***************************************************************************)
(* Cadence audio engine: the RtAudioBackend stream lifecycle               *)
(* (src/engine/backends/rtaudiobackend.cpp) and the callback bridge that   *)
(* the native layer invokes while the native stream is running.            *)
(*                                                                         *)
(* The backend object's fields are the state.  Every public operation is   *)
(* one action that models the whole method, the native calls it makes      *)
(* included.  The native layer (RtAudio 5.x, linked by the build) is the   *)
(* environment: a call fails when RtApi's own argument checks reject it,   *)
(* and otherwise succeeds or fails as the action's input says.             *)
(***************************************************************************)
EXTENDS Integers, Sequences, FiniteSets, TLC

VARIABLES
    m_rtAudio,          \* the owned RtAudio instance: its api and its stream's state
    m_backendType,      \* BackendType
    m_config,           \* StreamConfig
    m_userCallback,     \* AudioCallback (NullCallback = empty std::function)
    m_isRunning,        \* std::atomic<bool>
    m_isPaused,         \* std::atomic<bool>
    m_xrunCount,        \* std::atomic<int>
    m_streamTime,       \* std::atomic<double>, counted in delivered periods
    m_cpuUsage,         \* std::atomic<double>, percent
    m_lastCallbackTime, \* what last set the CPU-load baseline
    m_lastError,        \* std::string
    last,               \* the last call made on the backend, its arguments and outcome
    initialized,        \* history: initialize() has returned normally at least once
    threads             \* m_callbackMutex and where each thread is inside a method

backend == <<m_rtAudio, m_backendType, m_config, m_userCallback, m_isRunning,
             m_isPaused, m_xrunCount, m_streamTime, m_cpuUsage,
             m_lastCallbackTime, m_lastError>>

vars == <<m_rtAudio, m_backendType, m_config, m_userCallback, m_isRunning,
          m_isPaused, m_xrunCount, m_streamTime, m_cpuUsage,
          m_lastCallbackTime, m_lastError, last, initialized, threads>>

---------------------------------------------------------------------------
(* Bounds of the model *)

\* the native stream is followed for this many periods after each start
MaxPeriods == 1

---------------------------------------------------------------------------
(* The threads *)

\* No method is being executed.  m_callbackMutex: "free" or the thread that
\* holds it; control: where the thread that calls start and stop is; other:
\* where a second application thread, which calls pause, resume and the
\* reconfigurations, is; op, n, wasPaused: the reconfiguration in progress,
\* its argument and its local; realtime: where the native layer's callback
\* thread is; restartedBy: the call whose startStream started the native
\* stream, until the bridge is invoked; measured: for the latest bridge
\* invocation, the restartedBy it found and the baseline it measured from.
NoThreads ==
    [m_callbackMutex |-> "free", control |-> "idle", other |-> "idle",
     op |-> "none", n |-> 0, wasPaused |-> FALSE, realtime |-> "idle",
     restartedBy |-> "none", measured |-> [after |-> "none", from |-> "epoch"]]

---------------------------------------------------------------------------
(* audioconfig.h *)

BackendTypes ==
    {"Auto", "ASIO", "WASAPI", "DirectSound", "CoreAudio", "JACK", "ALSA",
     "Pulse", "RtAudio"}

SampleFormats == {"Float32", "Int16", "Int24", "Int32"}

NoName == "nullopt"

DefaultSampleRate == 48000

DefaultBufferSize == 512

DefaultChannels == 2

\* a default-constructed StreamConfig
DefaultConfig ==
    [inputDeviceName |-> NoName, outputDeviceName |-> NoName,
     sampleRate |-> DefaultSampleRate, bufferSize |-> DefaultBufferSize,
     inputChannels |-> DefaultChannels, outputChannels |-> DefaultChannels,
     format |-> "Float32", bufferStrategy |-> "Stable",
     allowSampleRateChange |-> FALSE, allowBufferSizeChange |-> FALSE,
     exclusiveMode |-> FALSE, preferredBackend |-> "Auto"]

\* StreamConfig::isValid (declared in audioconfig.h, defined outside src/)
isValid(config) ==
    /\ config.sampleRate > 0
    /\ config.bufferSize > 0
    /\ ~(config.inputChannels = 0 /\ config.outputChannels = 0)
    /\ config.format \in SampleFormats

---------------------------------------------------------------------------
(* The native layer *)

\* the compiled RtAudio API the build selects when none is specified
DefaultApi == "LINUX_ALSA"

\* the devices of the platform: native index -> RtAudio::DeviceInfo
Devices ==
    <<[name |-> "duplex", inputChannels |-> 2, outputChannels |-> 2],
      [name |-> "speaker", inputChannels |-> 0, outputChannels |-> 2]>>

DeviceIds == 0 .. (Len(Devices) - 1)

getDeviceInfo(i) == Devices[i + 1]

getDeviceCount == Len(Devices)

getDefaultInputDevice == 0

getDefaultOutputDevice == 0

\* RtAudio::StreamParameters() : deviceId(0), nChannels(0), firstChannel(0)
DefaultStreamParameters == [deviceId |-> 0, nChannels |-> 0, firstChannel |-> 0]

\* a null StreamParameters pointer
NullParams == [deviceId |-> -1, nChannels |-> -1, firstChannel |-> -1]

\* Conversion of an int to unsigned int (StreamParameters::deviceId is
\* unsigned): a negative value wraps around to the top of the range, so -1
\* becomes the largest value.  TLC's integers end at 2^31 - 1, which
\* stands for UINT_MAX here.
ToUnsigned(x) == IF x < 0 THEN (2147483647 + x) + 1 ELSE x

\* a freshly constructed RtAudio instance for an api
NewRtAudio(api) ==
    [api |-> IF api = "UNSPECIFIED" THEN DefaultApi ELSE api,
     state |-> "STREAM_CLOSED"]

\* the buffer size the native layer may grant instead of the requested one
AdjustedBufferSize == DefaultBufferSize \div 2

\* RtApi::openStream's argument checks: what makes it raise INVALID_USE
openStreamAccepts(rt, oParams, iParams) ==
    /\ rt.state = "STREAM_CLOSED"
    /\ (oParams # NullParams => oParams.nChannels >= 1)
    /\ (iParams # NullParams => iParams.nChannels >= 1)
    /\ ~(oParams = NullParams /\ iParams = NullParams)
    /\ (oParams # NullParams => oParams.deviceId < getDeviceCount)
    /\ (iParams # NullParams => iParams.deviceId < getDeviceCount)

\* RtApi::openStream: the possible outcomes.  It raises when the argument
\* checks reject the call or the device cannot be opened, and leaves the
\* stream closed; otherwise the stream is open and stopped, with the
\* requested buffer size or an adjusted one.
openStream(rt, oParams, iParams, bufferFrames) ==
    {[rt |-> rt, threw |-> TRUE, granted |-> 0]} \cup
    (IF openStreamAccepts(rt, oParams, iParams)
     THEN {[rt |-> [rt EXCEPT !.state = "STREAM_STOPPED"], threw |-> FALSE,
            granted |-> g] : g \in {bufferFrames, AdjustedBufferSize}}
     ELSE {})

\* RtApi::closeStream: never raises (a warning when no stream is open)
closeStream(rt) == [rt EXCEPT !.state = "STREAM_CLOSED"]

\* RtApi::stopStream: the possible outcomes.  INVALID_USE when no stream is
\* open, a warning when it is already stopped; a system error may leave the
\* stream running or stopped, depending on the API.
stopStream(rt) ==
    CASE rt.state = "STREAM_CLOSED" -> {[rt |-> rt, threw |-> TRUE]}
      [] rt.state = "STREAM_STOPPED" -> {[rt |-> rt, threw |-> FALSE]}
      [] OTHER ->
           {[rt |-> [rt EXCEPT !.state = "STREAM_STOPPED"], threw |-> FALSE],
            [rt |-> [rt EXCEPT !.state = "STREAM_STOPPED"], threw |-> TRUE],
            [rt |-> rt, threw |-> TRUE]}

\* RtApi::startStream: the possible outcomes.  INVALID_USE when no stream is
\* open, a warning when it is already running; a system error leaves the
\* stream stopped.
startStream(rt) ==
    CASE rt.state = "STREAM_CLOSED" -> {[rt |-> rt, threw |-> TRUE]}
      [] rt.state = "STREAM_RUNNING" -> {[rt |-> rt, threw |-> FALSE]}
      [] OTHER ->
           {[rt |-> [rt EXCEPT !.state = "STREAM_RUNNING"], threw |-> FALSE],
            [rt |-> rt, threw |-> TRUE]}

---------------------------------------------------------------------------
(* rtaudiobackend.cpp: helpers *)

convertRtAudioApi(api) ==
    CASE api = "WINDOWS_ASIO" -> "ASIO"
      [] api = "WINDOWS_WASAPI" -> "WASAPI"
      [] api = "WINDOWS_DS" -> "DirectSound"
      [] api = "MACOSX_CORE" -> "CoreAudio"
      [] api = "LINUX_ALSA" -> "ALSA"
      [] api = "LINUX_PULSE" -> "Pulse"
      [] api = "UNIX_JACK" -> "JACK"
      [] api = "RTAUDIO_DUMMY" -> "RtAudio"
      [] OTHER -> "RtAudio"

convertToRtAudioApi(backendType) ==
    CASE backendType = "ASIO" -> "WINDOWS_ASIO"
      [] backendType = "WASAPI" -> "WINDOWS_WASAPI"
      [] backendType = "DirectSound" -> "WINDOWS_DS"
      [] backendType = "CoreAudio" -> "MACOSX_CORE"
      [] backendType = "ALSA" -> "LINUX_ALSA"
      [] backendType = "Pulse" -> "LINUX_PULSE"
      [] backendType = "JACK" -> "UNIX_JACK"
      [] backendType = "RtAudio" -> "UNSPECIFIED"
      [] OTHER -> "UNSPECIFIED"

\* variant: the enumeration ends at the first index whose query fails
enumerateDevices_endsAtFailure(queryable) ==
    LET F[i \in 0 .. getDeviceCount] ==
            IF i = 0 THEN <<>>
            ELSE IF \A j \in 0 .. (i - 1) : j \in queryable
                 THEN Append(F[i - 1], i - 1)
                 ELSE F[i - 1]
    IN  F[getDeviceCount]

\* enumerateDevices: the native indices whose descriptor query succeeded
\* (queryable), in ascending order
enumerateDevices(queryable) ==
    LET F[i \in 0 .. getDeviceCount] ==
            IF i = 0 THEN <<>>
            ELSE IF (i - 1) \in queryable THEN Append(F[i - 1], i - 1)
                 ELSE F[i - 1]
    IN  F[getDeviceCount]

\* findDeviceIdByName: the first enumerated device of that name that has
\* channels in the wanted direction, or -1
findDeviceIdByName(name, isInput, queryable) ==
    LET devices == enumerateDevices(queryable)
        hit(k) == /\ getDeviceInfo(devices[k]).name = name
                  /\ \/ isInput /\ getDeviceInfo(devices[k]).inputChannels > 0
                     \/ ~isInput /\ getDeviceInfo(devices[k]).outputChannels > 0
        hits == {k \in 1 .. Len(devices) : hit(k)}
    IN  IF hits = {} THEN -1
        ELSE devices[CHOOSE k \in hits : \A j \in hits : k <= j]

---------------------------------------------------------------------------
(* The record of the last call *)

NullCallback == "nullptr"

Callbacks == {"cbA"}

\* the arguments of no openStream call
NoOpen ==
    [oParams |-> NullParams, iParams |-> NullParams, sampleRate |-> 0,
     bufferFrames |-> 0, granted |-> 0]

\* op: the method; callback, config, n: its argument; result: "ok" for a
\* normal return of a void method, the returned value, or the error code of
\* the AudioException raised; calls: the native calls made, in order; raised:
\* the native call that raised RtAudioError (for the bridge: "userCallback"
\* when the user callback raised), "none" when none did; open: the
\* arguments of the openStream call made and the buffer size granted;
\* backendType: the constructor's argument; devices: the devices an
\* enumeration returned, or the two operands of a comparison; streamTime: the
\* stream time the bridge passed to the user callback; queryable: the native
\* indices whose descriptor query succeeded during an enumeration; buffer:
\* the size in bytes of the output buffer the bridge was given and the number
\* of bytes, from the buffer's start, the bridge set to zero.
NoCall ==
    [op |-> "constructor", callback |-> NullCallback, config |-> DefaultConfig,
     n |-> 0, result |-> "ok", calls |-> <<>>, raised |-> "none", open |-> NoOpen,
     backendType |-> "RtAudio", devices |-> <<>>, streamTime |-> 0,
     queryable |-> {}, buffer |-> [bytes |-> 0, zeroed |-> 0]]

Call(op) == [NoCall EXCEPT !.op = op]

\* the arguments of an openStream call; granted is 0 when the call raised
OpenCall(oParams, iParams, sampleRate, bufferFrames, granted) ==
    [oParams |-> oParams, iParams |-> iParams, sampleRate |-> sampleRate,
     bufferFrames |-> bufferFrames, granted |-> granted]

---------------------------------------------------------------------------
(* RtAudioBackend::initialize *)

\* variant: a validity check that looks at the sample rate only
initializeRejects_rateOnly(config) == config.sampleRate <= 0

\* initialize's validity check
initializeRejects(config) == ~isValid(config)

\* variant: any preferred backend other than the current one, Auto included
initializeRecreates_anyOther(config) == config.preferredBackend # m_backendType

\* initialize recreates the RtAudio instance for another API
initializeRecreates(config) ==
    /\ config.preferredBackend # "Auto"
    /\ config.preferredBackend # m_backendType

initialize(config) ==
    IF initializeRejects(config)
    THEN /\ last' = [Call("initialize") EXCEPT !.config = config,
                                               !.result = "InvalidConfiguration"]
         /\ UNCHANGED <<backend, initialized, threads>>
    ELSE /\ m_config' = config
         /\ IF initializeRecreates(config)
            THEN /\ m_backendType' = config.preferredBackend
                 /\ m_rtAudio' = NewRtAudio(convertToRtAudioApi(config.preferredBackend))
            ELSE UNCHANGED <<m_backendType, m_rtAudio>>
         /\ m_lastError' = ""
         /\ initialized' = TRUE
         /\ UNCHANGED threads
         /\ last' = [Call("initialize") EXCEPT !.config = config]
         /\ UNCHANGED <<m_userCallback, m_isRunning, m_isPaused, m_xrunCount,
                        m_streamTime, m_cpuUsage, m_lastCallbackTime>>

---------------------------------------------------------------------------
(* RtAudioBackend::start *)

\* variant: a precondition check without the running test
startRejects_emptyOnly(callback) == callback = NullCallback

\* start's two precondition checks
startRejects(callback) == m_isRunning \/ callback = NullCallback

\* variant: the channel count is set for every direction that has channels,
\* named or not, so that an unnamed direction gets the default device
deviceParams_unnamedToo(channels, name, isInput, queryable, defaultDevice) ==
    LET named == IF channels > 0
                 THEN [DefaultStreamParameters EXCEPT
                          !.deviceId = IF name # NoName
                                       THEN ToUnsigned(findDeviceIdByName(
                                                name, isInput, queryable))
                                       ELSE ToUnsigned(-1),
                          !.nChannels = channels]
                 ELSE DefaultStreamParameters
    IN  IF named.nChannels > 0 /\ named.deviceId = ToUnsigned(-1)
        THEN [named EXCEPT !.deviceId = defaultDevice]
        ELSE named

\* The StreamParameters start builds for one direction: the named device's
\* id and the channel count when the direction has channels and a device
\* name, else the default-constructed ones; then the default device in place
\* of an id of -1 when the channel count was set.
deviceParams(channels, name, isInput, queryable, defaultDevice) ==
    LET named == IF channels > 0 /\ name # NoName
                 THEN [DefaultStreamParameters EXCEPT
                          !.deviceId = ToUnsigned(findDeviceIdByName(name, isInput,
                                                                     queryable)),
                          !.nChannels = channels]
                 ELSE DefaultStreamParameters
    IN  IF named.nChannels > 0 /\ named.deviceId = ToUnsigned(-1)
        THEN [named EXCEPT !.deviceId = defaultDevice]
        ELSE named

inputParams(queryable) ==
    deviceParams(m_config.inputChannels, m_config.inputDeviceName, TRUE, queryable,
                 getDefaultInputDevice)

outputParams(queryable) ==
    deviceParams(m_config.outputChannels, m_config.outputDeviceName, FALSE, queryable,
                 getDefaultOutputDevice)

\* variant: the running flag is not raised
startedFlags_notRunning == [m_isRunning |-> FALSE, m_isPaused |-> FALSE]

\* the flags start stores once the native stream has started
startedFlags == [m_isRunning |-> TRUE, m_isPaused |-> FALSE]

\* variant: a handler that stores no error text
startCatch_silent == [m_lastError |-> m_lastError, m_isRunning |-> FALSE]

\* start's handler of a native error: the stored error text and running flag
startCatch == [m_lastError |-> "Failed to start audio stream: ", m_isRunning |-> FALSE]

\* variant: the requested buffer size is kept
storedBufferSize_requested(requested, granted) == requested

\* the buffer size start stores after openStream returned: openStream wrote
\* the granted size to bufferFrames
storedBufferSize(requested, granted) == granted

\* variant: the stream time is left as it is
resetPerformanceCounters_keepsStreamTime ==
    [m_xrunCount |-> 0, m_cpuUsage |-> 0, m_streamTime |-> m_streamTime]

\* RtAudioBackend::resetPerformanceCounters
resetPerformanceCounters ==
    [m_xrunCount |-> 0, m_cpuUsage |-> 0, m_streamTime |-> 0]

\* queryable: the native indices whose descriptor query succeeds during the
\* enumeration; opened, started: the outcomes of the two native calls
start(callback) ==
    IF startRejects(callback)
    THEN /\ last' = [Call("start") EXCEPT !.callback = callback,
                                          !.result = "AudioBackendStartFailed"]
         /\ UNCHANGED <<backend, initialized, threads>>
    ELSE \E queryable \in SUBSET DeviceIds :
         LET oArg == IF m_config.outputChannels > 0
                     THEN outputParams(queryable) ELSE NullParams
             iArg == IF m_config.inputChannels > 0
                     THEN inputParams(queryable) ELSE NullParams
         IN  \E opened \in openStream(m_rtAudio, oArg, iArg, m_config.bufferSize) :
             LET openCall == OpenCall(oArg, iArg, m_config.sampleRate,
                                      m_config.bufferSize, opened.granted)
             IN  /\ m_userCallback' = callback
                 /\ UNCHANGED <<m_backendType, initialized, threads>>
                 /\ IF opened.threw
                    THEN /\ m_lastError' = startCatch.m_lastError
                         /\ m_isRunning' = startCatch.m_isRunning
                         /\ last' = [Call("start") EXCEPT !.callback = callback,
                                        !.result = "AudioBackendStartFailed",
                                        !.calls = <<"openStream">>,
                                        !.raised = "openStream", !.open = openCall]
                         /\ UNCHANGED <<m_rtAudio, m_config, m_isPaused, m_xrunCount,
                                        m_streamTime, m_cpuUsage, m_lastCallbackTime>>
                    ELSE \E started \in startStream(opened.rt) :
                         /\ m_config' = [m_config EXCEPT !.bufferSize =
                                            storedBufferSize(m_config.bufferSize,
                                                             opened.granted)]
                         /\ m_xrunCount' = resetPerformanceCounters.m_xrunCount
                         /\ m_cpuUsage' = resetPerformanceCounters.m_cpuUsage
                         /\ m_streamTime' = resetPerformanceCounters.m_streamTime
                         /\ m_rtAudio' = started.rt
                         /\ IF started.threw
                            THEN /\ m_lastError' = startCatch.m_lastError
                                 /\ m_isRunning' = startCatch.m_isRunning
                                 /\ last' = [Call("start") EXCEPT !.callback = callback,
                                                !.result = "AudioBackendStartFailed",
                                                !.calls = <<"openStream", "startStream">>,
                                                !.raised = "startStream",
                                                !.open = openCall]
                                 /\ UNCHANGED <<m_isPaused, m_lastCallbackTime>>
                            ELSE /\ m_isRunning' = startedFlags.m_isRunning
                                 /\ m_isPaused' = startedFlags.m_isPaused
                                 /\ m_lastCallbackTime' = "start"
                                 /\ last' = [Call("start") EXCEPT !.callback = callback,
                                                !.calls = <<"openStream", "startStream">>,
                                                !.open = openCall]
                                 /\ UNCHANGED m_lastError

---------------------------------------------------------------------------
(* RtAudioBackend::stop *)

\* variant: no early return
stopReturnsEarly_never == FALSE

\* stop returns at once when the backend is not running
stopReturnsEarly == ~m_isRunning

\* stop's native teardown, the possible outcomes: stopStream, then
\* closeStream unless stopStream raised
stopTeardown(rt) ==
    {IF stopped.threw
     THEN [rt |-> stopped.rt, threw |-> TRUE, calls |-> <<"stopStream">>]
     ELSE [rt |-> closeStream(stopped.rt), threw |-> FALSE,
           calls |-> <<"stopStream", "closeStream">>] : stopped \in stopStream(rt)}

\* variant: the paused flag is kept
stopFinalState_keepsPaused ==
    [m_isRunning |-> FALSE, m_isPaused |-> m_isPaused, m_userCallback |-> NullCallback]

\* variant: the held callback is kept
stopFinalState_keepsCallback ==
    [m_isRunning |-> FALSE, m_isPaused |-> FALSE, m_userCallback |-> m_userCallback]

\* what stop stores after the teardown, whatever the teardown did
stopFinalState ==
    [m_isRunning |-> FALSE, m_isPaused |-> FALSE, m_userCallback |-> NullCallback]

stop ==
    IF stopReturnsEarly
    THEN /\ last' = Call("stop")
         /\ UNCHANGED <<backend, initialized, threads>>
    ELSE \E t \in stopTeardown(m_rtAudio) :
         /\ m_rtAudio' = t.rt
         /\ m_lastError' = IF t.threw THEN "Error stopping stream: " ELSE m_lastError
         /\ m_isRunning' = stopFinalState.m_isRunning
         /\ m_isPaused' = stopFinalState.m_isPaused
         /\ m_userCallback' = stopFinalState.m_userCallback
         /\ last' = [Call("stop") EXCEPT
                        !.calls = t.calls,
                        !.raised = IF t.threw THEN "stopStream" ELSE "none"]
         /\ UNCHANGED <<m_backendType, m_config, m_xrunCount, m_streamTime,
                        m_cpuUsage, m_lastCallbackTime, initialized, threads>>

---------------------------------------------------------------------------
(* RtAudioBackend::pause and RtAudioBackend::resume *)

\* variant: an early return that does not look at the paused flag
pauseReturnsEarly_notRunningOnly == ~m_isRunning

\* pause does nothing unless the backend is running and not paused
pauseReturnsEarly == ~m_isRunning \/ m_isPaused

\* resume does nothing unless the backend is running and paused
resumeReturnsEarly == ~m_isRunning \/ ~m_isPaused

\* variant: a pause that only sets the flag
pauseNativeCall_none(rt) == {[rt |-> rt, threw |-> FALSE]}

\* the native call pause makes, the possible outcomes
pauseNativeCall(rt) == stopStream(rt)

pause ==
    IF pauseReturnsEarly
    THEN /\ last' = Call("pause")
         /\ UNCHANGED <<backend, initialized, threads>>
    ELSE \E stopped \in pauseNativeCall(m_rtAudio) :
         /\ m_rtAudio' = stopped.rt
         /\ IF stopped.threw
            THEN /\ m_lastError' = "Error pausing stream: "
                 /\ last' = [Call("pause") EXCEPT !.result = "AudioBackendStopFailed",
                                                  !.calls = <<"stopStream">>,
                                                  !.raised = "stopStream"]
                 /\ UNCHANGED m_isPaused
            ELSE /\ m_isPaused' = TRUE
                 /\ last' = [Call("pause") EXCEPT !.calls = <<"stopStream">>]
                 /\ UNCHANGED m_lastError
         /\ UNCHANGED <<m_backendType, m_config, m_userCallback, m_isRunning,
                        m_xrunCount, m_streamTime, m_cpuUsage, m_lastCallbackTime,
                        initialized, threads>>

resume ==
    IF resumeReturnsEarly
    THEN /\ last' = Call("resume")
         /\ UNCHANGED <<backend, initialized, threads>>
    ELSE \E started \in startStream(m_rtAudio) :
         /\ m_rtAudio' = started.rt
         /\ IF started.threw
            THEN /\ m_lastError' = "Error resuming stream: "
                 /\ last' = [Call("resume") EXCEPT !.result = "AudioBackendStartFailed",
                                                   !.calls = <<"startStream">>,
                                                   !.raised = "startStream"]
                 /\ UNCHANGED <<m_isPaused, m_lastCallbackTime>>
            ELSE /\ m_isPaused' = FALSE
                 /\ m_lastCallbackTime' = "resume"
                 /\ last' = [Call("resume") EXCEPT !.calls = <<"startStream">>]
                 /\ UNCHANGED m_lastError
         /\ UNCHANGED <<m_backendType, m_config, m_userCallback, m_isRunning,
                        m_xrunCount, m_streamTime, m_cpuUsage, initialized, threads>>

---------------------------------------------------------------------------
(* RtAudioBackend::changeSampleRate and RtAudioBackend::changeBufferSize *)

\* the StreamParameters the reconfiguration passes to openStream: the
\* default-constructed ones for a direction with channels, else null
reopenParams(channels) == IF channels > 0 THEN DefaultStreamParameters ELSE NullParams

\* The body both reconfigurations share, from the try block on: pause unless
\* paused, close, store the new config, reopen, resume unless it was paused.
\* op names the caller, n is its argument, newConfig the config with the
\* parameter changed, bufferFrames the buffer size requested of the native
\* layer, errorText what the caller's handler of a native error stores.
reconfigure(op, n, newConfig, bufferFrames, errorText) ==
    LET wasPaused == m_isPaused
        pauseCalls == IF wasPaused THEN <<>> ELSE <<"stopStream">>
        oArg == reopenParams(newConfig.outputChannels)
        iArg == reopenParams(newConfig.inputChannels)
    IN  \E paused \in (IF wasPaused THEN {[rt |-> m_rtAudio, threw |-> FALSE]}
                       ELSE pauseNativeCall(m_rtAudio)) :
        /\ UNCHANGED <<m_backendType, m_userCallback, m_isRunning, m_xrunCount,
                       m_streamTime, m_cpuUsage, initialized, threads>>
        /\ IF paused.threw
           THEN \* pause() raised AudioException: no handler here catches it
                /\ m_rtAudio' = paused.rt
                /\ m_lastError' = "Error pausing stream: "
                /\ last' = [Call(op) EXCEPT !.n = n,
                               !.result = "AudioBackendStopFailed",
                               !.calls = pauseCalls, !.raised = "stopStream"]
                /\ UNCHANGED <<m_config, m_isPaused, m_lastCallbackTime>>
           ELSE \E opened \in openStream(closeStream(paused.rt), oArg, iArg, bufferFrames) :
                LET openCall == OpenCall(oArg, iArg, newConfig.sampleRate,
                                         bufferFrames, opened.granted)
                IN  /\ m_config' = newConfig
                    /\ IF opened.threw
                       THEN /\ m_rtAudio' = opened.rt
                            /\ m_isPaused' = TRUE
                            /\ m_lastError' = errorText
                            /\ last' = [Call(op) EXCEPT !.n = n, !.result = "false",
                                           !.calls = pauseCalls \o
                                               <<"closeStream", "openStream">>,
                                           !.raised = "openStream",
                                           !.open = openCall]
                            /\ UNCHANGED m_lastCallbackTime
                       ELSE \E resumed \in (IF wasPaused
                                            THEN {[rt |-> opened.rt, threw |-> FALSE]}
                                            ELSE startStream(opened.rt)) :
                            /\ m_rtAudio' = resumed.rt
                            /\ IF resumed.threw
                               THEN \* resume() raised AudioException: not caught either
                                    /\ m_isPaused' = TRUE
                                    /\ m_lastError' = "Error resuming stream: "
                                    /\ last' = [Call(op) EXCEPT !.n = n,
                                                   !.result = "AudioBackendStartFailed",
                                                   !.calls = pauseCalls \o
                                                       <<"closeStream", "openStream",
                                                         "startStream">>,
                                                   !.raised = "startStream",
                                                   !.open = openCall]
                                    /\ UNCHANGED m_lastCallbackTime
                               ELSE /\ m_isPaused' = wasPaused
                                    /\ m_lastCallbackTime' =
                                           IF wasPaused THEN m_lastCallbackTime
                                           ELSE "resume"
                                    /\ last' = [Call(op) EXCEPT !.n = n, !.result = "true",
                                                   !.calls = pauseCalls \o
                                                       <<"closeStream", "openStream">> \o
                                                       (IF wasPaused THEN <<>>
                                                        ELSE <<"startStream">>),
                                                   !.open = openCall]
                                    /\ UNCHANGED m_lastError

\* variant: a refusal that does not look at the config flag
changeSampleRateRefuses_notRunningOnly == ~m_isRunning

\* changeSampleRate refuses unless running and allowed by the config
changeSampleRateRefuses == ~m_isRunning \/ ~m_config.allowSampleRateChange

\* changeBufferSize refuses unless running and allowed by the config
changeBufferSizeRefuses == ~m_isRunning \/ ~m_config.allowBufferSizeChange

changeSampleRate(newRate) ==
    IF changeSampleRateRefuses
    THEN /\ last' = [Call("changeSampleRate") EXCEPT !.n = newRate, !.result = "false"]
         /\ UNCHANGED <<backend, initialized, threads>>
    ELSE reconfigure("changeSampleRate", newRate,
                     [m_config EXCEPT !.sampleRate = newRate], m_config.bufferSize,
                     "Failed to change sample rate: ")

changeBufferSize(newSize) ==
    IF changeBufferSizeRefuses
    THEN /\ last' = [Call("changeBufferSize") EXCEPT !.n = newSize, !.result = "false"]
         /\ UNCHANGED <<backend, initialized, threads>>
    ELSE reconfigure("changeBufferSize", newSize,
                     [m_config EXCEPT !.bufferSize = newSize], newSize,
                     "Failed to change buffer size: ")

---------------------------------------------------------------------------
(* switchInputDevice, switchOutputDevice, clearError *)

\* variant: the request is ignored without a trace
switchDevice_ignored(op) ==
    /\ last' = [Call(op) EXCEPT !.result = "false"]
    /\ UNCHANGED <<backend, initialized, threads>>

switchDevice(op) ==
    /\ m_lastError' = "Device switching not implemented"
    /\ last' = [Call(op) EXCEPT !.result = "false"]
    /\ UNCHANGED <<m_rtAudio, m_backendType, m_config, m_userCallback, m_isRunning,
                   m_isPaused, m_xrunCount, m_streamTime, m_cpuUsage,
                   m_lastCallbackTime, initialized, threads>>

switchInputDevice == switchDevice("switchInputDevice")

switchOutputDevice == switchDevice("switchOutputDevice")

clearError ==
    /\ m_lastError' = ""
    /\ last' = Call("clearError")
    /\ UNCHANGED <<m_rtAudio, m_backendType, m_config, m_userCallback, m_isRunning,
                   m_isPaused, m_xrunCount, m_streamTime, m_cpuUsage,
                   m_lastCallbackTime, initialized, threads>>

---------------------------------------------------------------------------
(* RtAudioBackend::handleAudioCallback, invoked by the native thread *)

\* the CPU usage stored for a period that met its deadline: a value of
\* (elapsed / expectedTime) * 100, which lies between 0 and 100
OnTimeUsage == 50

\* the CPU usage stored for a period that missed its deadline
SaturatedUsage == 100

\* what the user callback does in one invocation: it returns, it raises a
\* std::exception, or it raises something else
CallbackOutcomes == {"returns", "exception", "other"}

\* the error text the bridge stores for a user callback that raised
callbackErrorText(outcome) ==
    IF outcome = "exception" THEN "Audio callback error: "
    ELSE "Unknown error in audio callback"

\* variant: the error of the user callback is swallowed without halting
callbackHaltCode_swallows(raised) == 0

\* the bridge's return value to the native layer
callbackHaltCode(raised) == IF raised THEN 1 ELSE 0

\* One period of the running native stream.  overflow and underflow are the
\* two status flags, late says the elapsed time exceeded the expected period,
\* outcome is what the user callback does when it is invoked.  A non-zero
\* return makes the native layer stop the stream.
\* variant: the stream time is not accumulated
updateStreamTime_keeps == m_streamTime

\* RtAudioBackend::updateStreamTime: the stream time, in periods, after the
\* frames of one more period (nFrames / sampleRate seconds) are added
updateStreamTime == m_streamTime + 1

handleAudioCallback(overflow, underflow, late, outcome) ==
    LET flags == (IF overflow THEN 1 ELSE 0) + (IF underflow THEN 1 ELSE 0)
        invoked == m_userCallback # NullCallback
        raised == invoked /\ outcome # "returns"
        ret == callbackHaltCode(raised)
    IN  /\ m_rtAudio.state = "STREAM_RUNNING"
        /\ m_streamTime < MaxPeriods
        /\ m_xrunCount' = m_xrunCount + flags
        /\ m_cpuUsage' = IF late THEN SaturatedUsage ELSE OnTimeUsage
        /\ m_lastCallbackTime' = "callback"
        /\ m_streamTime' = updateStreamTime
        /\ m_lastError' = IF raised THEN callbackErrorText(outcome) ELSE m_lastError
        /\ m_rtAudio' = IF ret # 0 THEN [m_rtAudio EXCEPT !.state = "STREAM_STOPPED"]
                        ELSE m_rtAudio
        /\ last' = [Call("handleAudioCallback") EXCEPT
                       !.callback = m_userCallback, !.n = flags,
                       !.streamTime = IF invoked THEN updateStreamTime ELSE 0,
                       !.raised = IF raised THEN "userCallback" ELSE "none",
                       !.result = IF ret # 0 THEN "1" ELSE "0"]
        /\ UNCHANGED <<m_backendType, m_config, m_userCallback, m_isRunning,
                       m_isPaused, initialized, threads>>

---------------------------------------------------------------------------
(* The inputs and the specification *)

\* the backend types a backend is constructed for
CtorTypes == {"Auto", "RtAudio"}

\* an output-only stream on a named device that exists, reconfigurable
SpeakerConfig ==
    [DefaultConfig EXCEPT !.inputChannels = 0, !.outputDeviceName = "speaker",
                          !.allowSampleRateChange = TRUE,
                          !.allowBufferSizeChange = TRUE]

\* a duplex stream on another backend: the output device does not exist and
\* the input device of that name has no input channel
MissingConfig ==
    [DefaultConfig EXCEPT !.inputDeviceName = "speaker",
                          !.outputDeviceName = "missing",
                          !.preferredBackend = "Pulse"]

\* invalid: the sample rate is not positive
BadRateConfig == [DefaultConfig EXCEPT !.sampleRate = 0]

\* invalid: no channel in either direction
NoChannelConfig ==
    [DefaultConfig EXCEPT !.inputChannels = 0, !.outputChannels = 0,
                          !.preferredBackend = "JACK"]

Configs ==
    {DefaultConfig, SpeakerConfig, MissingConfig, BadRateConfig, NoChannelConfig}

NewRates == {44100}

NewSizes == {1024}

\* the constructor, for the requested backend type
Constructed(backendType) ==
    /\ m_rtAudio = IF backendType = "Auto" THEN NewRtAudio("UNSPECIFIED")
                   ELSE NewRtAudio(convertToRtAudioApi(backendType))
    /\ m_backendType = IF backendType = "Auto"
                       THEN convertRtAudioApi(NewRtAudio("UNSPECIFIED").api)
                       ELSE backendType
    /\ m_config = DefaultConfig
    /\ m_userCallback = NullCallback
    /\ m_isRunning = FALSE
    /\ m_isPaused = FALSE
    /\ m_xrunCount = 0
    /\ m_streamTime = 0
    /\ m_cpuUsage = 0
    /\ m_lastCallbackTime = "epoch"
    /\ m_lastError = ""

\* the record of the constructor call
Construction(backendType) == [NoCall EXCEPT !.backendType = backendType]

Init ==
    /\ \E backendType \in CtorTypes :
          Constructed(backendType) /\ last = Construction(backendType)
    /\ initialized = FALSE
    /\ threads = NoThreads

Next ==
    \/ \E config \in Configs : initialize(config)
    \/ \E callback \in Callbacks \cup {NullCallback} : start(callback)
    \/ stop
    \/ pause
    \/ resume
    \/ \E newRate \in NewRates : changeSampleRate(newRate)
    \/ \E newSize \in NewSizes : changeBufferSize(newSize)
    \/ switchInputDevice
    \/ switchOutputDevice
    \/ clearError
    \/ \E overflow \in BOOLEAN, underflow \in BOOLEAN, late \in BOOLEAN,
          outcome \in CallbackOutcomes :
          handleAudioCallback(overflow, underflow, late, outcome)

Spec == Init /\ [][Next]_vars

\* the native thread delivers one period
deliverPeriod ==
    \E overflow \in BOOLEAN, underflow \in BOOLEAN, late \in BOOLEAN,
       outcome \in CallbackOutcomes :
       handleAudioCallback(overflow, underflow, late, outcome)

\* The native thread keeps delivering periods for as long as the native
\* stream is running.
LiveSpec == Init /\ [][Next]_vars /\ WF_vars(deliverPeriod)

---------------------------------------------------------------------------
(* RtAudioBackend::~RtAudioBackend *)

\* variant: a destructor that never stops
destructorStops_never == FALSE

\* the destructor calls stop when the backend is running
destructorStops == m_isRunning

\* The destructor: stop when running, anything raised is swallowed; then the
\* members are destroyed, and the destructor of the RtAudio instance closes a
\* stream that is still open.
destructor ==
    IF destructorStops /\ ~stopReturnsEarly
    THEN \E t \in stopTeardown(m_rtAudio) :
         /\ m_rtAudio' = closeStream(t.rt)
         /\ m_lastError' = IF t.threw THEN "Error stopping stream: " ELSE m_lastError
         /\ m_isRunning' = stopFinalState.m_isRunning
         /\ m_isPaused' = stopFinalState.m_isPaused
         /\ m_userCallback' = stopFinalState.m_userCallback
         /\ last' = [Call("destructor") EXCEPT
                        !.calls = t.calls,
                        !.raised = IF t.threw THEN "stopStream" ELSE "none"]
         /\ UNCHANGED <<m_backendType, m_config, m_xrunCount, m_streamTime,
                        m_cpuUsage, m_lastCallbackTime, initialized, threads>>
    ELSE /\ m_rtAudio' = closeStream(m_rtAudio)
         /\ last' = Call("destructor")
         /\ UNCHANGED <<m_backendType, m_config, m_userCallback, m_isRunning,
                        m_isPaused, m_xrunCount, m_streamTime, m_cpuUsage,
                        m_lastCallbackTime, m_lastError, initialized, threads>>

\* no method is called on a destroyed backend
LifeNext == last.op # "destructor" /\ (Next \/ destructor)

\* the life of a backend up to and including its destruction
LifeSpec == Init /\ [][LifeNext]_vars

---------------------------------------------------------------------------
(* rtaudiodevice.cpp: RtAudioDevice, and the enumeration that constructs it *)

\* static_cast<int>(backendType)
backendTypeInt(backendType) ==
    CASE backendType = "Auto" -> 0
      [] backendType = "ASIO" -> 1
      [] backendType = "WASAPI" -> 2
      [] backendType = "DirectSound" -> 3
      [] backendType = "CoreAudio" -> 4
      [] backendType = "JACK" -> 5
      [] backendType = "ALSA" -> 6
      [] backendType = "Pulse" -> 7
      [] OTHER -> 8

\* std::hash<std::string>: a function of the name, the same within one
\* process run, that may give two names the same value
hashName(name) ==
    CASE name = "duplex" -> 1
      [] name = "speaker" -> 1
      [] OTHER -> 2

\* variant: an id made of the backend type and the name hash only
makeId_withoutIndex(backendType, deviceId, name) ==
    <<backendTypeInt(backendType), 0, hashName(name)>>

\* The generated id "type_index_hash".  The three numbers are written in
\* decimal with "_" between them, so the text and the triple determine each
\* other.
makeId(backendType, deviceId, name) ==
    <<backendTypeInt(backendType), deviceId, hashName(name)>>

\* RtAudioDevice::RtAudioDevice
RtAudioDevice(deviceId, name, backendType, isDefaultInput, isDefaultOutput) ==
    [m_deviceId |-> deviceId, name |-> name, m_backendType |-> backendType,
     m_isDefaultInput |-> isDefaultInput, m_isDefaultOutput |-> isDefaultOutput,
     m_id |-> makeId(backendType, deviceId, name)]

getId(device) == device.m_id

\* variant: equality by native index
operatorEq_byIndex(a, b) == a.m_deviceId = b.m_deviceId

\* RtAudioDevice::operator==.  RtAudioDevice is the only IAudioDevice class
\* of the program, so the dynamic_cast of the other operand succeeds.
operatorEq(a, b) == a.m_id = b.m_id

\* RtAudioDevice::operator!=
operatorNe(a, b) == ~operatorEq(a, b)

\* the devices enumerateDevices returns: one RtAudioDevice per native index
\* whose descriptor query succeeded, in ascending order
enumeratedDevices(queryable) ==
    LET indices == enumerateDevices(queryable)
    IN  [k \in 1 .. Len(indices) |->
            RtAudioDevice(indices[k], getDeviceInfo(indices[k]).name, m_backendType,
                          indices[k] = getDefaultInputDevice,
                          indices[k] = getDefaultOutputDevice)]

\* RtAudioBackend::enumerateDevices as an operation of the backend
enumerate ==
    \E queryable \in SUBSET DeviceIds :
       /\ last' = [Call("enumerateDevices") EXCEPT
                      !.devices = enumeratedDevices(queryable),
                      !.queryable = queryable]
       /\ UNCHANGED <<backend, initialized, threads>>

\* the devices that are compared: every native index and name, under two
\* backend types
ComparedDevices ==
    {RtAudioDevice(i, getDeviceInfo(j).name, backendType,
                   i = getDefaultInputDevice, i = getDefaultOutputDevice) :
        i \in DeviceIds, j \in DeviceIds, backendType \in {"ALSA", "Pulse"}}

\* a == b and a != b, evaluated on two devices
compareEq(a, b) ==
    /\ last' = [Call("operator==") EXCEPT
                   !.devices = <<a, b>>,
                   !.result = IF operatorEq(a, b) THEN "true" ELSE "false"]
    /\ UNCHANGED <<backend, initialized, threads>>

compareNe(a, b) ==
    /\ last' = [Call("operator!=") EXCEPT
                   !.devices = <<a, b>>,
                   !.result = IF operatorNe(a, b) THEN "true" ELSE "false"]
    /\ UNCHANGED <<backend, initialized, threads>>

\* the configs given to initialize here: a valid one for every preferred
\* backend, and an invalid one
DeviceConfigs ==
    {[DefaultConfig EXCEPT !.preferredBackend = b] : b \in BackendTypes}
        \cup {BadRateConfig}

\* a backend constructed for any backend type
DeviceInit ==
    /\ \E backendType \in BackendTypes :
          Constructed(backendType) /\ last = Construction(backendType)
    /\ initialized = FALSE
    /\ threads = NoThreads

DeviceNext ==
    \/ \E config \in DeviceConfigs : initialize(config)
    \/ enumerate
    \/ \E a \in ComparedDevices, b \in ComparedDevices : compareEq(a, b)
    \/ \E a \in ComparedDevices, b \in ComparedDevices : compareNe(a, b)

\* construction, initialization, enumeration and device comparison
DeviceSpec == DeviceInit /\ [][DeviceNext]_vars

---------------------------------------------------------------------------
(* The methods step by step, with the callback thread running beside them *)

\* start, lines 61-74: the lock is taken and held to the end of the method;
\* the two checks; the callback is stored
startEnter(callback) ==
    /\ threads.control = "idle" /\ threads.m_callbackMutex = "free"
    /\ IF startRejects(callback)
       THEN /\ last' = [Call("start") EXCEPT !.callback = callback,
                                             !.result = "AudioBackendStartFailed"]
            /\ UNCHANGED <<backend, initialized, threads>>
       ELSE /\ m_userCallback' = callback
            /\ threads' = [threads EXCEPT !.m_callbackMutex = "control",
                                          !.control = "start:openStream"]
            /\ last' = [Call("start") EXCEPT !.callback = callback,
                                             !.result = "pending"]
            /\ UNCHANGED <<m_rtAudio, m_backendType, m_config, m_isRunning,
                           m_isPaused, m_xrunCount, m_streamTime, m_cpuUsage,
                           m_lastCallbackTime, m_lastError, initialized>>

\* what start's handler of a native error does, the lock released on the way
\* out
startFails(rt, calls, raised) ==
    /\ m_rtAudio' = rt
    /\ m_lastError' = startCatch.m_lastError
    /\ m_isRunning' = startCatch.m_isRunning
    /\ threads' = [threads EXCEPT !.m_callbackMutex = "free", !.control = "idle"]
    /\ last' = [Call("start") EXCEPT !.callback = m_userCallback,
                   !.result = "AudioBackendStartFailed",
                   !.calls = calls, !.raised = raised]
    /\ UNCHANGED <<m_backendType, m_config, m_userCallback, m_isPaused,
                   m_xrunCount, m_streamTime, m_cpuUsage, m_lastCallbackTime,
                   initialized>>

\* start, lines 78-140: the stream parameters, openStream, the granted buffer
\* size and the counters
startOpen ==
    /\ threads.control = "start:openStream"
    /\ \E queryable \in SUBSET DeviceIds :
       LET oArg == IF m_config.outputChannels > 0
                   THEN outputParams(queryable) ELSE NullParams
           iArg == IF m_config.inputChannels > 0
                   THEN inputParams(queryable) ELSE NullParams
       IN  \E opened \in openStream(m_rtAudio, oArg, iArg, m_config.bufferSize) :
           IF opened.threw
           THEN startFails(opened.rt, <<"openStream">>, "openStream")
           ELSE /\ m_rtAudio' = opened.rt
                /\ m_config' = [m_config EXCEPT !.bufferSize =
                                   storedBufferSize(m_config.bufferSize,
                                                    opened.granted)]
                /\ m_xrunCount' = resetPerformanceCounters.m_xrunCount
                /\ m_cpuUsage' = resetPerformanceCounters.m_cpuUsage
                /\ m_streamTime' = resetPerformanceCounters.m_streamTime
                /\ threads' = [threads EXCEPT !.control = "start:startStream"]
                /\ last' = [Call("start") EXCEPT !.callback = m_userCallback,
                               !.result = "pending", !.calls = <<"openStream">>]
                /\ UNCHANGED <<m_backendType, m_userCallback, m_isRunning,
                               m_isPaused, m_lastCallbackTime, m_lastError,
                               initialized>>

\* start, line 143: startStream; from its return on the native layer
\* invokes the bridge
startStartStream ==
    /\ threads.control = "start:startStream"
    /\ \E started \in startStream(m_rtAudio) :
          IF started.threw
          THEN startFails(started.rt, <<"openStream", "startStream">>, "startStream")
          ELSE /\ m_rtAudio' = started.rt
               /\ threads' = [threads EXCEPT !.control = "start:flags",
                                             !.restartedBy = "start"]
               /\ last' = [Call("start") EXCEPT !.callback = m_userCallback,
                              !.result = "pending",
                              !.calls = <<"openStream", "startStream">>]
               /\ UNCHANGED <<m_backendType, m_config, m_userCallback,
                              m_isRunning, m_isPaused, m_xrunCount, m_streamTime,
                              m_cpuUsage, m_lastCallbackTime, m_lastError,
                              initialized>>

\* start, lines 144-147 and the return: the flags, the baseline, the lock
\* released
startReturn ==
    /\ threads.control = "start:flags"
    /\ m_isRunning' = startedFlags.m_isRunning
    /\ m_isPaused' = startedFlags.m_isPaused
    /\ m_lastCallbackTime' = "start"
    /\ threads' = [threads EXCEPT !.m_callbackMutex = "free", !.control = "idle"]
    /\ last' = [Call("start") EXCEPT !.callback = m_userCallback,
                   !.calls = <<"openStream", "startStream">>]
    /\ UNCHANGED <<m_rtAudio, m_backendType, m_config, m_userCallback,
                   m_xrunCount, m_streamTime, m_cpuUsage, m_lastError,
                   initialized>>

\* stop, lines 157-161: the lock is taken and held to the end of the method;
\* the early return
stopEnter ==
    /\ threads.control = "idle" /\ threads.m_callbackMutex = "free"
    /\ IF stopReturnsEarly
       THEN /\ last' = Call("stop")
            /\ UNCHANGED <<backend, initialized, threads>>
       ELSE /\ threads' = [threads EXCEPT !.m_callbackMutex = "control",
                                          !.control = "stop:stopStream"]
            /\ last' = [Call("stop") EXCEPT !.result = "pending"]
            /\ UNCHANGED <<backend, initialized>>

\* stop, lines 163-169: stopStream and closeStream.  closeStream joins the
\* callback thread: it returns when no bridge invocation is in progress.
stopNative ==
    /\ threads.control = "stop:stopStream"
    /\ \E t \in stopTeardown(m_rtAudio) :
          /\ t.threw \/ threads.realtime = "idle"
          /\ m_rtAudio' = t.rt
          /\ m_lastError' = IF t.threw THEN "Error stopping stream: "
                            ELSE m_lastError
          /\ threads' = [threads EXCEPT
                            !.control = "stop:flags",
                            !.restartedBy = IF t.rt.state = "STREAM_RUNNING"
                                            THEN @ ELSE "none"]
          /\ last' = [Call("stop") EXCEPT
                         !.result = "pending", !.calls = t.calls,
                         !.raised = IF t.threw THEN "stopStream" ELSE "none"]
          /\ UNCHANGED <<m_backendType, m_config, m_userCallback, m_isRunning,
                         m_isPaused, m_xrunCount, m_streamTime, m_cpuUsage,
                         m_lastCallbackTime, initialized>>

\* stop, lines 171-173 and the return: the flags, the callback uninstalled,
\* the lock released
stopReturn ==
    /\ threads.control = "stop:flags"
    /\ m_isRunning' = stopFinalState.m_isRunning
    /\ m_isPaused' = stopFinalState.m_isPaused
    /\ m_userCallback' = stopFinalState.m_userCallback
    /\ threads' = [threads EXCEPT !.m_callbackMutex = "free", !.control = "idle"]
    /\ last' = Call("stop")
    /\ UNCHANGED <<m_rtAudio, m_backendType, m_config, m_xrunCount, m_streamTime,
                   m_cpuUsage, m_lastCallbackTime, m_lastError, initialized>>

\* initialize on the control thread: it takes the lock for the whole method
\* and makes no native call on the stream
lockedInitialize(config) ==
    /\ threads.control = "idle" /\ threads.m_callbackMutex = "free"
    /\ initialize(config)

\* pause on the second thread, which takes no lock
unlockedPause ==
    /\ threads.other = "idle"
    /\ pause

\* resume, lines 191-196: no lock; the early return; startStream
resumeStartStream ==
    /\ threads.other = "idle"
    /\ IF resumeReturnsEarly
       THEN /\ last' = Call("resume")
            /\ UNCHANGED <<backend, initialized, threads>>
       ELSE \E started \in startStream(m_rtAudio) :
            /\ m_rtAudio' = started.rt
            /\ IF started.threw
               THEN /\ m_lastError' = "Error resuming stream: "
                    /\ last' = [Call("resume") EXCEPT
                                   !.result = "AudioBackendStartFailed",
                                   !.calls = <<"startStream">>,
                                   !.raised = "startStream"]
                    /\ UNCHANGED threads
               ELSE /\ threads' = [threads EXCEPT !.other = "resume:flags",
                                                  !.restartedBy = "resume"]
                    /\ last' = [Call("resume") EXCEPT !.result = "pending",
                                                      !.calls = <<"startStream">>]
                    /\ UNCHANGED m_lastError
            /\ UNCHANGED <<m_backendType, m_config, m_userCallback, m_isRunning,
                           m_isPaused, m_xrunCount, m_streamTime, m_cpuUsage,
                           m_lastCallbackTime, initialized>>

\* resume, lines 197-198 and the return: the flag and the baseline
resumeReturn ==
    /\ threads.other = "resume:flags"
    /\ m_isPaused' = FALSE
    /\ m_lastCallbackTime' = "resume"
    /\ threads' = [threads EXCEPT !.other = "idle"]
    /\ last' = [Call("resume") EXCEPT !.calls = <<"startStream">>]
    /\ UNCHANGED <<m_rtAudio, m_backendType, m_config, m_userCallback,
                   m_isRunning, m_xrunCount, m_streamTime, m_cpuUsage,
                   m_lastError, initialized>>

\* the refusal of the reconfiguration op
reconfigurationRefuses(op) ==
    IF op = "changeSampleRate" THEN changeSampleRateRefuses
    ELSE changeBufferSizeRefuses

\* changeSampleRate lines 265-275, changeBufferSize lines 332-343: no lock;
\* the refusal; wasPaused; pause() unless paused, whose AudioException no
\* handler here catches
changePause(op, n) ==
    /\ threads.other = "idle"
    /\ IF reconfigurationRefuses(op)
       THEN /\ last' = [Call(op) EXCEPT !.n = n, !.result = "false"]
            /\ UNCHANGED <<backend, initialized, threads>>
       ELSE \E paused \in (IF m_isPaused \/ pauseReturnsEarly
                           THEN {[rt |-> m_rtAudio, threw |-> FALSE]}
                           ELSE pauseNativeCall(m_rtAudio)) :
            /\ m_rtAudio' = paused.rt
            /\ IF paused.threw
               THEN /\ m_lastError' = "Error pausing stream: "
                    /\ last' = [Call(op) EXCEPT !.n = n,
                                   !.result = "AudioBackendStopFailed",
                                   !.calls = <<"stopStream">>,
                                   !.raised = "stopStream"]
                    /\ UNCHANGED <<m_isPaused, threads>>
               ELSE /\ m_isPaused' = TRUE
                    /\ threads' = [threads EXCEPT
                                      !.other = "change:closeStream",
                                      !.op = op, !.n = n,
                                      !.wasPaused = m_isPaused,
                                      !.restartedBy = "none"]
                    /\ last' = [Call(op) EXCEPT !.n = n, !.result = "pending",
                                   !.calls = IF m_isPaused THEN <<>>
                                             ELSE <<"stopStream">>]
                    /\ UNCHANGED m_lastError
            /\ UNCHANGED <<m_backendType, m_config, m_userCallback, m_isRunning,
                           m_xrunCount, m_streamTime, m_cpuUsage,
                           m_lastCallbackTime, initialized>>

\* changeSampleRate line 277, changeBufferSize line 345: closeStream, which
\* joins the callback thread
changeClose ==
    /\ threads.other = "change:closeStream"
    /\ threads.realtime = "idle"
    /\ m_rtAudio' = closeStream(m_rtAudio)
    /\ threads' = [threads EXCEPT !.other = "change:config",
                                  !.restartedBy = "none"]
    /\ last' = [Call(threads.op) EXCEPT !.n = threads.n, !.result = "pending",
                                        !.calls = <<"closeStream">>]
    /\ UNCHANGED <<m_backendType, m_config, m_userCallback, m_isRunning,
                   m_isPaused, m_xrunCount, m_streamTime, m_cpuUsage,
                   m_lastCallbackTime, m_lastError, initialized>>

\* changeSampleRate line 278, changeBufferSize line 346: the config
changeConfig ==
    /\ threads.other = "change:config"
    /\ m_config' = IF threads.op = "changeSampleRate"
                   THEN [m_config EXCEPT !.sampleRate = threads.n]
                   ELSE [m_config EXCEPT !.bufferSize = threads.n]
    /\ threads' = [threads EXCEPT !.other = "change:openStream"]
    /\ last' = [Call(threads.op) EXCEPT !.n = threads.n, !.result = "pending"]
    /\ UNCHANGED <<m_rtAudio, m_backendType, m_userCallback, m_isRunning,
                   m_isPaused, m_xrunCount, m_streamTime, m_cpuUsage,
                   m_lastCallbackTime, m_lastError, initialized>>

\* changeSampleRate lines 281-328, changeBufferSize lines 349-396: the reopen
\* with default-constructed stream parameters, then resume() unless it was
\* paused, and the return
changeReopen ==
    /\ threads.other = "change:openStream"
    /\ \E opened \in openStream(m_rtAudio, reopenParams(m_config.outputChannels),
                                reopenParams(m_config.inputChannels),
                                m_config.bufferSize) :
          IF opened.threw
          THEN /\ m_rtAudio' = opened.rt
               /\ m_lastError' = IF threads.op = "changeSampleRate"
                                 THEN "Failed to change sample rate: "
                                 ELSE "Failed to change buffer size: "
               /\ threads' = [threads EXCEPT !.other = "idle"]
               /\ last' = [Call(threads.op) EXCEPT
                              !.n = threads.n, !.result = "false",
                              !.calls = <<"openStream">>, !.raised = "openStream"]
               /\ UNCHANGED <<m_backendType, m_config, m_userCallback,
                              m_isRunning, m_isPaused, m_xrunCount, m_streamTime,
                              m_cpuUsage, m_lastCallbackTime, initialized>>
          ELSE \E resumed \in (IF threads.wasPaused \/ resumeReturnsEarly
                               THEN {[rt |-> opened.rt, threw |-> FALSE]}
                               ELSE startStream(opened.rt)) :
               /\ m_rtAudio' = resumed.rt
               /\ m_isPaused' = IF threads.wasPaused \/ resumed.threw
                                THEN m_isPaused ELSE FALSE
               /\ m_lastCallbackTime' = IF threads.wasPaused \/ resumed.threw
                                        THEN m_lastCallbackTime ELSE "resume"
               /\ m_lastError' = IF resumed.threw THEN "Error resuming stream: "
                                 ELSE m_lastError
               /\ threads' = [threads EXCEPT
                                 !.other = "idle",
                                 !.restartedBy =
                                     IF resumed.rt.state = "STREAM_RUNNING"
                                     THEN "resume" ELSE "none"]
               /\ last' = [Call(threads.op) EXCEPT
                              !.n = threads.n,
                              !.result = IF resumed.threw
                                         THEN "AudioBackendStartFailed"
                                         ELSE "true",
                              !.calls = <<"openStream">>,
                              !.raised = IF resumed.threw THEN "startStream"
                                         ELSE "none"]
               /\ UNCHANGED <<m_backendType, m_config, m_userCallback,
                              m_isRunning, m_xrunCount, m_streamTime, m_cpuUsage,
                              initialized>>

\* handleAudioCallback, lines 428-469, on the callback thread: no lock; the
\* counters, the CPU load measured from the baseline it finds, the new
\* baseline, the stream time, and the user callback invoked when there is
\* one
bridgeInvoke(overflow, underflow, late) ==
    LET flags == (IF overflow THEN 1 ELSE 0) + (IF underflow THEN 1 ELSE 0)
        invoked == m_userCallback # NullCallback
    IN  /\ threads.realtime = "idle"
        /\ m_rtAudio.state = "STREAM_RUNNING"
        /\ m_streamTime < MaxPeriods
        /\ m_xrunCount' = m_xrunCount + flags
        /\ m_cpuUsage' = IF late THEN SaturatedUsage ELSE OnTimeUsage
        /\ m_lastCallbackTime' = "callback"
        /\ m_streamTime' = updateStreamTime
        /\ threads' = [threads EXCEPT
                          !.realtime = IF invoked THEN "userCallback" ELSE "idle",
                          !.restartedBy = "none",
                          !.measured = [after |-> threads.restartedBy,
                                        from |-> m_lastCallbackTime]]
        /\ last' = [Call("handleAudioCallback") EXCEPT
                       !.callback = m_userCallback, !.n = flags,
                       !.streamTime = IF invoked THEN updateStreamTime ELSE 0,
                       !.result = IF invoked THEN "pending" ELSE "0"]
        /\ UNCHANGED <<m_rtAudio, m_backendType, m_config, m_userCallback,
                       m_isRunning, m_isPaused, m_lastError, initialized>>

\* handleAudioCallback, lines 470-485: the user callback returns or raises;
\* a non-zero return makes the native layer stop the stream
bridgeReturn(outcome) ==
    LET raised == outcome # "returns"
        ret == callbackHaltCode(raised)
    IN  /\ threads.realtime = "userCallback"
        /\ m_lastError' = IF raised THEN callbackErrorText(outcome) ELSE m_lastError
        /\ m_rtAudio' = IF ret # 0 /\ m_rtAudio.state = "STREAM_RUNNING"
                        THEN [m_rtAudio EXCEPT !.state = "STREAM_STOPPED"]
                        ELSE m_rtAudio
        /\ threads' = [threads EXCEPT
                          !.realtime = "idle",
                          !.restartedBy = IF ret # 0 THEN "none" ELSE @]
        /\ last' = [Call("handleAudioCallback") EXCEPT
                       !.callback = m_userCallback,
                       !.raised = IF raised THEN "userCallback" ELSE "none",
                       !.result = IF ret # 0 THEN "1" ELSE "0"]
        /\ UNCHANGED <<m_backendType, m_config, m_userCallback, m_isRunning,
                       m_isPaused, m_xrunCount, m_streamTime, m_cpuUsage,
                       m_lastCallbackTime, initialized>>

\* the reconfigurations
ReconfigurationOps == {"changeSampleRate", "changeBufferSize"}

\* the argument given to the reconfiguration op
NewValues(op) == IF op = "changeSampleRate" THEN NewRates ELSE NewSizes

ConcInit ==
    /\ Constructed("RtAudio") /\ last = Construction("RtAudio")
    /\ initialized = FALSE
    /\ threads = NoThreads

ConcNext ==
    \/ lockedInitialize(SpeakerConfig)
    \/ \E callback \in Callbacks : startEnter(callback)
    \/ startOpen
    \/ startStartStream
    \/ startReturn
    \/ stopEnter
    \/ stopNative
    \/ stopReturn
    \/ unlockedPause
    \/ resumeStartStream
    \/ resumeReturn
    \/ \E op \in ReconfigurationOps : \E n \in NewValues(op) : changePause(op, n)
    \/ changeClose
    \/ changeConfig
    \/ changeReopen
    \/ \E late \in BOOLEAN : bridgeInvoke(FALSE, FALSE, late)
    \/ \E outcome \in {"returns", "exception"} : bridgeReturn(outcome)

\* One backend used by three threads: a control thread that calls initialize,
\* start and stop, a second application thread that calls pause, resume and
\* the reconfigurations, and the native layer's callback thread.  A thread's
\* step is atomic; the steps of different threads interleave.
ConcSpec == ConcInit /\ [][ConcNext]_vars

---------------------------------------------------------------------------
(* The bridge and the output buffer *)

\* RtApi::formatBytes: the size of one sample of the format the stream was
\* opened with (convertToRtAudioFormat: RTAUDIO_FLOAT32, _SINT16, _SINT24,
\* _SINT32)
formatBytes(format) ==
    CASE format = "Int16" -> 2
      [] format = "Int24" -> 3
      [] OTHER -> 4

\* sizeof(float)
SizeofFloat == 4

\* The output buffer the native layer hands to the bridge, in bytes: nFrames
\* samples of the stream's format for each output channel of the stream;
\* none (a null pointer) when the stream has no output channel.  The stream
\* was opened from the stored config.
outputBufferBytes(nFrames) ==
    nFrames * m_config.outputChannels * formatBytes(m_config.format)

\* handleAudioCallback, lines 479-483: the number of bytes memset sets to
\* zero from the start of the output buffer when no user callback is held
zeroFill(nFrames) ==
    IF m_userCallback = NullCallback
       /\ outputBufferBytes(nFrames) > 0 /\ m_config.outputChannels > 0
    THEN nFrames * m_config.outputChannels * SizeofFloat
    ELSE 0

\* handleAudioCallback with its output buffer: one period of the stream's
\* buffer size, without status flags
handleAudioCallbackBuffer(late, outcome) ==
    LET nFrames == m_config.bufferSize
        invoked == m_userCallback # NullCallback
        raised == invoked /\ outcome # "returns"
        ret == callbackHaltCode(raised)
    IN  /\ m_rtAudio.state = "STREAM_RUNNING"
        /\ m_streamTime < MaxPeriods
        /\ m_cpuUsage' = IF late THEN SaturatedUsage ELSE OnTimeUsage
        /\ m_lastCallbackTime' = "callback"
        /\ m_streamTime' = updateStreamTime
        /\ m_lastError' = IF raised THEN callbackErrorText(outcome) ELSE m_lastError
        /\ m_rtAudio' = IF ret # 0 THEN [m_rtAudio EXCEPT !.state = "STREAM_STOPPED"]
                        ELSE m_rtAudio
        /\ last' = [Call("handleAudioCallback") EXCEPT
                       !.callback = m_userCallback,
                       !.streamTime = IF invoked THEN updateStreamTime ELSE 0,
                       !.raised = IF raised THEN "userCallback" ELSE "none",
                       !.result = IF ret # 0 THEN "1" ELSE "0",
                       !.buffer = [bytes |-> outputBufferBytes(nFrames),
                                   zeroed |-> zeroFill(nFrames)]]
        /\ UNCHANGED <<m_backendType, m_config, m_userCallback, m_isRunning,
                       m_isPaused, m_xrunCount, initialized, threads>>

\* initialize while no native stream is open, so that the stored config is
\* the one the open stream was opened from
initializeClosed(config) ==
    /\ m_rtAudio.state = "STREAM_CLOSED"
    /\ initialize(config)

\* an input-only stream on a named device that exists
MicrophoneConfig ==
    [DefaultConfig EXCEPT !.outputChannels = 0, !.inputDeviceName = "duplex"]

\* output-only configs of two channels and of one, and an input-only config,
\* in every sample format
BufferConfigs ==
    {[config EXCEPT !.format = format] :
        config \in {SpeakerConfig, MicrophoneConfig,
                    [SpeakerConfig EXCEPT !.outputChannels = 1]},
        format \in SampleFormats}

BufferNext ==
    \/ \E config \in BufferConfigs : initializeClosed(config)
    \/ \E callback \in Callbacks : start(callback)
    \/ stop
    \/ \E late \in BOOLEAN, outcome \in CallbackOutcomes :
          handleAudioCallbackBuffer(late, outcome)

\* streams of every sample format, and the buffers the bridge is given
BufferSpec == Init /\ [][BufferNext]_vars

---------------------------------------------------------------------------
(* Properties of the lifecycle *)

\* the native calls of a start whose openStream and startStream both returned
StartNativeCalls == <<"openStream", "startStream">>

\* C1 (start/stop and isRunning): a start on a backend that is not running
\* and was initialized with a valid config, given a non-empty callback, whose
\* native open and native start both succeed leaves isRunning true and
\* isPaused false; isRunning is false in the constructed state and becomes
\* true only by such a start; and it is false in the state stop returns in.
C1_StartSetsRunning ==
    /\ ~m_isRunning
    /\ [][/\ ( /\ last'.op = "start"
               /\ ~m_isRunning /\ initialized /\ isValid(m_config)
               /\ last'.callback # NullCallback
               /\ last'.calls = StartNativeCalls /\ last'.raised = "none" )
             => (last'.result = "ok" /\ m_isRunning' /\ ~m_isPaused')
          /\ (~m_isRunning /\ m_isRunning')
             => ( /\ last'.op = "start" /\ last'.result = "ok"
                  /\ last'.calls = StartNativeCalls /\ last'.raised = "none" )
          /\ (last'.op = "stop") => ~m_isRunning'
       ]_vars

\* a start has just succeeded on an initialized backend
C1_Witness ==
    /\ last.op = "start" /\ last.result = "ok" /\ last.raised = "none"
    /\ initialized /\ m_isRunning /\ ~m_isPaused

\* C2 (start before initialize): on a backend on which initialize never
\* returned normally, start with a non-empty callback raises
\* AudioBackendStartFailed, leaves the native stream closed and isRunning
\* false.
C2_StartBeforeInitializeFails ==
    (~initialized /\ last.op = "start" /\ last.callback # NullCallback)
    => ( /\ last.result = "AudioBackendStartFailed"
         /\ last.open.granted = 0
         /\ m_rtAudio.state = "STREAM_CLOSED"
         /\ ~m_isRunning )

\* start with a non-empty callback has just failed on a fresh backend
C2_Witness ==
    /\ ~initialized /\ last.op = "start" /\ last.callback # NullCallback
    /\ last.result = "AudioBackendStartFailed" /\ ~m_isRunning

\* C3 (rejected start changes nothing): a start while the backend is running,
\* paused or not, or with an empty callback raises AudioBackendStartFailed and
\* leaves the running flag, the paused flag, the held callback, the stored
\* config, the performance counters and the native stream as they were.
C3_RejectedStartChangesNothing ==
    [][(last'.op = "start" /\ (m_isRunning \/ last'.callback = NullCallback))
       => ( /\ last'.result = "AudioBackendStartFailed"
            /\ last'.calls = <<>>
            /\ UNCHANGED <<m_isRunning, m_isPaused, m_userCallback, m_config,
                           m_xrunCount, m_streamTime, m_cpuUsage,
                           m_lastCallbackTime, m_rtAudio>> )
      ]_vars

\* a start with a non-empty callback has just been rejected on a paused backend
C3_Witness ==
    /\ last.op = "start" /\ last.callback # NullCallback
    /\ last.result = "AudioBackendStartFailed"
    /\ m_isRunning /\ m_isPaused /\ m_rtAudio.state = "STREAM_STOPPED"

\* C4 (native failure during start): when the native open or the native
\* start raises during start, start raises AudioBackendStartFailed, isRunning
\* is false after it and the last-error text is not empty.
C4_NativeStartFailure ==
    (last.op = "start" /\ last.raised # "none")
    => ( /\ last.result = "AudioBackendStartFailed"
         /\ ~m_isRunning
         /\ m_lastError # "" )

\* the native start has just raised after the native open succeeded
C4_Witness ==
    /\ last.op = "start" /\ last.raised = "startStream"
    /\ last.open.granted > 0 /\ ~m_isRunning

\* no device of the platform has this name and channels in this direction,
\* so no enumeration can contain one
NoSuchDevice(name, isInput) ==
    /\ name # NoName
    /\ \A i \in DeviceIds :
          ~( /\ getDeviceInfo(i).name = name
             /\ IF isInput THEN getDeviceInfo(i).inputChannels > 0
                ELSE getDeviceInfo(i).outputChannels > 0 )

\* the stored config names, for a direction it has channels in, a device
\* that does not exist in that direction
NamesMissingDevice ==
    \/ m_config.inputChannels > 0 /\ NoSuchDevice(m_config.inputDeviceName, TRUE)
    \/ m_config.outputChannels > 0 /\ NoSuchDevice(m_config.outputDeviceName, FALSE)

\* C5 (unknown device name), as the specification states it: when the config
\* names a device that no enumerated device of that direction matches, start
\* fails, opens no native stream and does not fall back to the default device.
C5_UnknownDeviceFailsStart ==
    (last.op = "start" /\ last.calls # <<>> /\ NamesMissingDevice)
    => ( /\ last.result = "AudioBackendStartFailed"
         /\ last.open.granted = 0
         /\ m_rtAudio.state = "STREAM_CLOSED" )

\* C6 (stop is idempotent): stop on a backend that is not running changes no
\* field of the backend and makes no native call, and a stop that directly
\* follows a stop changes nothing.
C6_StopIdempotent ==
    [][/\ (last'.op = "stop" /\ ~m_isRunning)
          => (UNCHANGED backend /\ last'.calls = <<>> /\ last'.result = "ok")
       /\ (last.op = "stop" /\ last'.op = "stop")
          => (UNCHANGED backend /\ last'.calls = <<>>)
      ]_vars

\* stop has just returned early on a backend that is not running but still
\* holds the callback and the open stream of a failed start
C6_Witness ==
    /\ last.op = "stop" /\ last.calls = <<>>
    /\ ~m_isRunning /\ m_userCallback # NullCallback
    /\ m_rtAudio.state # "STREAM_CLOSED"

\* C7 (stop never raises): stop returns normally whatever the native layer
\* does; when a native call of the teardown raises, the error is stored in
\* the last-error text and stop still ends with isRunning false, isPaused
\* false and the held callback cleared.
C7_StopNeverRaises ==
    (last.op = "stop")
    => ( /\ last.result = "ok"
         /\ ~m_isRunning /\ ~m_isPaused
         /\ (last.calls # <<>>) => (m_userCallback = NullCallback)
         /\ (last.raised # "none")
            => (m_lastError = "Error stopping stream: ") )

\* the native stopStream has just raised inside stop
C7_Witness ==
    /\ last.op = "stop" /\ last.raised = "stopStream"
    /\ m_lastError = "Error stopping stream: " /\ m_userCallback = NullCallback

\* C8 (stop closes the stream), as the specification states it: when stop
\* returns after acting on a running or paused backend, the native stream is
\* closed, also when the native stopStream raised.
C8_StopClosesStream ==
    (last.op = "stop" /\ last.calls # <<>>)
    => (m_rtAudio.state = "STREAM_CLOSED")

\* C9 (initialize rejects an invalid config): initialize with a config that
\* is not valid raises InvalidConfiguration and leaves the stored config, the
\* backend type, the running and paused flags and the last-error text as they
\* were.
C9_InvalidConfigRejected ==
    [][(last'.op = "initialize" /\ ~isValid(last'.config))
       => ( /\ last'.result = "InvalidConfiguration"
            /\ UNCHANGED <<m_config, m_backendType, m_isRunning, m_isPaused,
                           m_lastError, m_rtAudio>> )
      ]_vars

\* an invalid config has just been rejected on a running backend that holds
\* an error text
C9_Witness ==
    /\ last.op = "initialize" /\ ~isValid(last.config)
    /\ last.result = "InvalidConfiguration"
    /\ m_isRunning /\ m_lastError # "" /\ m_config # last.config

\* C10 (initialize while running), as the specification states it: no state
\* is reachable in which initialize has just replaced the stored config, or
\* the native instance, of a backend that still reports running.
C10_NoInitializeWhileRunning ==
    ~(last.op = "initialize" /\ last.result = "ok" /\ m_isRunning)

\* C11 (pause and resume outside their states): pause on a backend that is
\* not running or already paused, and resume on a backend that is not running
\* or not paused, return normally, make no native call and change no field
\* of the backend.
C11_PauseResumeNoOps ==
    [][( \/ last'.op = "pause" /\ (~m_isRunning \/ m_isPaused)
         \/ last'.op = "resume" /\ (~m_isRunning \/ ~m_isPaused) )
       => (last'.result = "ok" /\ last'.calls = <<>> /\ UNCHANGED backend)
      ]_vars

\* pause has just returned without a native call on a paused backend that
\* holds an error text
C11_Witness ==
    /\ last.op = "pause" /\ last.calls = <<>>
    /\ m_isRunning /\ m_isPaused /\ m_lastError # ""

\* C13 (reconfiguration refused): changeSampleRate on a backend that is not
\* running or whose config does not allow it, and changeBufferSize likewise,
\* return false without raising, make no native call and leave the running
\* flag, the paused flag, the stored config and the native stream as they
\* were.
C13_ReconfigurationRefused ==
    [][( \/ /\ last'.op = "changeSampleRate"
            /\ (~m_isRunning \/ ~m_config.allowSampleRateChange)
         \/ /\ last'.op = "changeBufferSize"
            /\ (~m_isRunning \/ ~m_config.allowBufferSizeChange) )
       => ( /\ last'.result = "false" /\ last'.calls = <<>>
            /\ UNCHANGED <<m_isRunning, m_isPaused, m_config, m_rtAudio,
                           m_lastError>> )
      ]_vars

\* changeSampleRate has just been refused on a running backend whose config
\* does not allow it
C13_Witness ==
    /\ last.op = "changeSampleRate" /\ last.result = "false" /\ last.calls = <<>>
    /\ m_isRunning /\ ~m_config.allowSampleRateChange
    /\ m_rtAudio.state = "STREAM_RUNNING"

\* C16 (device switching is not implemented): switchInputDevice and
\* switchOutputDevice return false in every state, leave a non-empty
\* last-error text and leave the running flag, the paused flag, the stored
\* config and the native stream as they were.
C16_SwitchDeviceFails ==
    [][(last'.op \in {"switchInputDevice", "switchOutputDevice"})
       => ( /\ last'.result = "false"
            /\ m_lastError' # ""
            /\ UNCHANGED <<m_isRunning, m_isPaused, m_config, m_rtAudio>> )
      ]_vars

\* switchOutputDevice has just failed on a running backend
C16_Witness ==
    /\ last.op = "switchOutputDevice" /\ last.result = "false"
    /\ m_isRunning /\ m_lastError = "Device switching not implemented"

\* the two reconfiguration methods
Reconfigurations == {"changeSampleRate", "changeBufferSize"}

\* C14 (reconfiguration never raises), as the specification states it:
\* changeSampleRate and changeBufferSize return true or false, and when a
\* native call of the reconfiguration raised they return false with a
\* non-empty last-error text.
C14_ReconfigurationNeverRaises ==
    (last.op \in Reconfigurations)
    => ( /\ last.result \in {"true", "false"}
         /\ (last.raised # "none")
            => (last.result = "false" /\ m_lastError # "") )

\* C15 (failed reopen), as the specification states it: when the native
\* reopen raises during a reconfiguration, the native stream is closed, the
\* last-error text is not empty and the backend does not report running
\* while no native stream is open.
C15_FailedReopenLeavesClosed ==
    (last.op \in Reconfigurations /\ last.raised = "openStream")
    => ( /\ m_rtAudio.state = "STREAM_CLOSED"
         /\ m_lastError # ""
         /\ ~(m_isRunning /\ m_rtAudio.state = "STREAM_CLOSED") )

\* C17 (xrun accounting), as the specification states it: an invocation of
\* the bridge with the overflow flag, the underflow flag or both raises the
\* xrun count by exactly 1, and one with no flag leaves it as it was.
C17_XrunCountedOncePerInvocation ==
    [][(last'.op = "handleAudioCallback")
       => (m_xrunCount' = m_xrunCount + (IF last'.n > 0 THEN 1 ELSE 0))
      ]_vars

\* C18 (user callback raises), as the specification states it: in the state
\* the bridge returns in after the user callback raised, the backend reports
\* not running and the last-error text is not empty.
C18_CallbackErrorStopsBackend ==
    (last.op = "handleAudioCallback" /\ last.raised = "userCallback")
    => (~m_isRunning /\ m_lastError # "")

\* C19 (errors do not cross the bridge): the bridge always returns 0 or 1 to
\* the native layer; it returns 1 exactly when the user callback raised in
\* that invocation, and then the error is stored as the last-error text.
C19_BridgeHaltsOnCallbackError ==
    (last.op = "handleAudioCallback")
    => ( /\ last.result \in {"0", "1"}
         /\ (last.result = "1") <=> (last.raised = "userCallback")
         /\ (last.raised = "userCallback")
            => (m_lastError \in {"Audio callback error: ",
                                 "Unknown error in audio callback"}) )

\* the user callback has just raised something that is no std::exception and
\* the native layer has halted the stream
C19_Witness ==
    /\ last.op = "handleAudioCallback" /\ last.raised = "userCallback"
    /\ last.result = "1" /\ m_lastError = "Unknown error in audio callback"
    /\ m_rtAudio.state = "STREAM_STOPPED"

\* the backend is paused
Paused == m_isRunning /\ m_isPaused

\* C12 (pause halts delivery, resume restarts it): from the state a
\* successful pause returns in, and for as long as the backend stays paused,
\* the bridge is not invoked; and after a successful resume, within the
\* periods the model follows, the user callback is eventually invoked again
\* unless the native stream stops running, or the backend is stopped, first.
C12_PauseHaltsResumeRestarts ==
    /\ [][Paused => last'.op # "handleAudioCallback"]_vars
    /\ ( /\ last.op = "resume" /\ last.result = "ok"
         /\ last.calls = <<"startStream">>
         /\ m_streamTime < MaxPeriods )
       ~> ( \/ last.op = "handleAudioCallback" /\ last.callback # NullCallback
            \/ m_rtAudio.state # "STREAM_RUNNING"
            \/ ~m_isRunning )

\* resume has just restarted the native stream of a paused backend, with a
\* period still to be delivered
C12_Witness ==
    /\ last.op = "resume" /\ last.result = "ok" /\ last.calls = <<"startStream">>
    /\ m_isRunning /\ ~m_isPaused /\ m_rtAudio.state = "STREAM_RUNNING"
    /\ m_streamTime < MaxPeriods

\* C20 (destruction): the destructor returns normally whatever the native
\* layer does; a backend that was running is stopped through stopStream, is
\* not running afterwards, and in every case the native stream is closed
\* when the destructor has returned.
C20_DestructorNeverRaises ==
    [][(last'.op = "destructor")
       => ( /\ last'.result = "ok"
            /\ m_rtAudio'.state = "STREAM_CLOSED"
            /\ m_isRunning
               => ( /\ ~m_isRunning'
                    /\ last'.calls # <<>> /\ Head(last'.calls) = "stopStream" ) )
      ]_vars

\* a running backend has just been destroyed, with the native stopStream
\* raising during the teardown
C20_Witness ==
    /\ last.op = "destructor" /\ last.raised = "stopStream" /\ last.result = "ok"
    /\ ~m_isRunning /\ m_rtAudio.state = "STREAM_CLOSED"

\* C23 (device equality): a == b is true exactly when the two ids are
\* equal, a != b is true exactly when a == b is false, and a device equals
\* itself.
C23_EqualityById ==
    /\ (last.op = "operator==")
       => ( /\ (last.result = "true")
               <=> (getId(last.devices[1]) = getId(last.devices[2]))
            /\ (last.devices[1] = last.devices[2]) => (last.result = "true")
            /\ last.result \in {"true", "false"} )
    /\ (last.op = "operator!=")
       => ( /\ (last.result = "true")
               <=> (getId(last.devices[1]) # getId(last.devices[2]))
            /\ last.result \in {"true", "false"} )

\* two devices of different native index have just compared unequal although
\* their backend type and name are the same
C23_Witness ==
    /\ last.op = "operator==" /\ last.result = "false"
    /\ last.devices[1].m_deviceId # last.devices[2].m_deviceId
    /\ last.devices[1].name = last.devices[2].name
    /\ last.devices[1].m_backendType = last.devices[2].m_backendType

\* C24 (device ids): the devices one enumeration returns have pairwise
\* different ids, and two enumerations that follow each other give a device
\* of the same native index and name the same id.
C24_IdsUniqueAndRepeatable ==
    /\ [](last.op = "enumerateDevices"
          => \A j, k \in 1 .. Len(last.devices) :
                (j # k) => (getId(last.devices[j]) # getId(last.devices[k])))
    /\ [][(last.op = "enumerateDevices" /\ last'.op = "enumerateDevices")
          => \A j \in 1 .. Len(last.devices), k \in 1 .. Len(last'.devices) :
                ( /\ last.devices[j].m_deviceId = last'.devices[k].m_deviceId
                  /\ last.devices[j].name = last'.devices[k].name )
                => (getId(last.devices[j]) = getId(last'.devices[k]))
         ]_vars

\* an enumeration has just returned every device of the platform
C24_Witness ==
    /\ last.op = "enumerateDevices"
    /\ Len(last.devices) = getDeviceCount

\* C25 (backend type): the backend type is never Auto; a backend constructed
\* for a type other than Auto has that type; and the type changes only in an
\* initialize call that returns normally and whose config prefers a type
\* that is neither Auto nor the current one, to that type.
C25_BackendTypeNeverAuto ==
    /\ [](m_backendType # "Auto")
    /\ []((last.op = "constructor" /\ last.backendType # "Auto")
          => (m_backendType = last.backendType))
    /\ [][(m_backendType' # m_backendType)
          => ( /\ last'.op = "initialize" /\ last'.result = "ok"
               /\ last'.config.preferredBackend \notin {"Auto", m_backendType}
               /\ m_backendType' = last'.config.preferredBackend )
         ]_vars

\* initialize with a config that prefers Auto has just returned on a backend
\* of another type
C25_Witness ==
    /\ last.op = "initialize" /\ last.result = "ok"
    /\ last.config.preferredBackend = "Auto"
    /\ m_backendType = "ASIO"

C28_StartResetsCounters ==
    [][(last'.op = "start" /\ last'.result = "ok")
       => (m_xrunCount' = 0 /\ m_cpuUsage' = 0 /\ m_streamTime' = 0)]_vars

\* start has just returned normally on a backend whose previous stream had
\* its user callback invoked, which raised an exception
C28_Witness ==
    /\ last.op = "start" /\ last.result = "ok"
    /\ m_lastError = callbackErrorText("exception")
    /\ m_streamTime = 0

\* a start got past the native open
StartOpened == last'.op = "start" /\ Len(last'.calls) = 2

\* C29 (stream time): each bridge invocation adds one period to the stream
\* time and passes the sum to the user callback it invokes; the stream time
\* changes in no other operation than a bridge invocation and a start whose
\* native open succeeded, and decreases only in such a start.
C29_StreamTimeMonotonic ==
    [][ /\ (last'.op = "handleAudioCallback")
           => ( /\ m_streamTime' = m_streamTime + 1
                /\ (last'.callback # NullCallback)
                   => (last'.streamTime = m_streamTime') )
        /\ (m_streamTime' # m_streamTime)
           => (last'.op = "handleAudioCallback" \/ StartOpened)
        /\ (m_streamTime' < m_streamTime) => StartOpened
      ]_vars

\* the bridge has just passed the stream time of one period to the user
\* callback
C29_Witness ==
    /\ last.op = "handleAudioCallback"
    /\ last.callback # NullCallback
    /\ last.streamTime = 1 /\ m_streamTime = 1

\* C29 as stated: only a start that returns normally decreases the stream
\* time.
C29_OnlySuccessfulStartResets ==
    [][(m_streamTime' < m_streamTime)
       => (last'.op = "start" /\ last'.result = "ok")]_vars

\* C21 (callback lock): the user callback is never being invoked on the
\* callback thread while the control thread holds m_callbackMutex.
C21_NoCallbackUnderLock ==
    ~(threads.realtime = "userCallback" /\ threads.m_callbackMutex = "control")

\* a reconfiguration is between its first and its last step
Reconfiguring ==
    threads.other \in {"change:closeStream", "change:config", "change:openStream"}

\* C22 (reconfiguration serialized): while a reconfiguration is between its
\* steps, no step of start or stop is taken.
C22_ReconfigurationSerialized ==
    [][Reconfiguring => (last'.op \notin {"start", "stop"})]_vars

\* C30 (CPU-load baseline): the first bridge invocation after the native
\* stream was started by start or by resume measures from the baseline that
\* start or resume stored.
C30_BaselineResetBeforeFirstInvocation ==
    /\ (threads.measured.after = "start") => (threads.measured.from = "start")
    /\ (threads.measured.after = "resume") => (threads.measured.from = "resume")

\* start has just made its openStream call for a config with channels but
\* no device name in this direction
UnnamedDirectionOpened(isInput) ==
    /\ last.op = "start" /\ last.calls # <<>>
    /\ IF isInput
       THEN m_config.inputChannels > 0 /\ m_config.inputDeviceName = NoName
       ELSE m_config.outputChannels > 0 /\ m_config.outputDeviceName = NoName

\* C33 (default device), as the specification states it: for a direction
\* that has channels and no device name, start asks the native layer to
\* open the platform default device of that direction with the configured
\* channel count.
C33_UnnamedDirectionOpensDefault ==
    /\ UnnamedDirectionOpened(TRUE)
       => ( /\ last.open.iParams.deviceId = getDefaultInputDevice
            /\ last.open.iParams.nChannels = m_config.inputChannels )
    /\ UnnamedDirectionOpened(FALSE)
       => ( /\ last.open.oParams.deviceId = getDefaultOutputDevice
            /\ last.open.oParams.nChannels = m_config.outputChannels )

\* C34 (paused implies running): the backend is never paused while it is
\* not running.
C34_PausedImpliesRunning == m_isPaused => m_isRunning

\* a reconfiguration has just failed at its reopen and left the backend
\* paused and running
C34_Witness ==
    /\ last.op \in Reconfigurations /\ last.raised = "openStream"
    /\ m_isPaused /\ m_isRunning

\* C35 (start fails after the open), as the specification states it: when
\* the native startStream raises in start, the native stream is closed and
\* the held callback is cleared when start returns.
C35_FailedStartClosesStream ==
    (last.op = "start" /\ last.raised = "startStream")
    => ( /\ m_rtAudio.state = "STREAM_CLOSED"
         /\ m_userCallback = NullCallback )

\* C36 (config kept on failure), as the specification states it: a
\* changeSampleRate or changeBufferSize that returns false leaves the stored
\* sample rate and buffer size as they were.
C36_FailedReconfigurationKeepsConfig ==
    [][(last'.op \in Reconfigurations /\ last'.result = "false")
       => ( /\ m_config'.sampleRate = m_config.sampleRate
            /\ m_config'.bufferSize = m_config.bufferSize )]_vars

\* C37 (reopen arguments), as the specification states it: the openStream
\* call of a reconfiguration requests, for each direction, the channel count
\* of the stored config, which is what start requested for the stream that
\* was running.
C37_ReopenKeepsChannels ==
    (last.op \in Reconfigurations /\ last.open # NoOpen)
    => ( /\ (m_config.outputChannels > 0)
            => (last.open.oParams.nChannels = m_config.outputChannels)
         /\ (m_config.inputChannels > 0)
            => (last.open.iParams.nChannels = m_config.inputChannels) )

\* C38 (no callback after stop), as the specification states it: the bridge
\* invokes a user callback only while the backend is running, that is, after
\* a start that returned normally and before the stop that follows it has
\* returned.
C38_NoCallbackAfterStop ==
    [][(last'.op = "handleAudioCallback" /\ last'.callback # NullCallback)
       => m_isRunning]_vars

\* C32 (enumeration): enumerateDevices returns one device for each native
\* index whose descriptor query succeeded and none for the others, in
\* ascending index order, each with the name of its index.
C32_EnumerationSkipsFailures ==
    (last.op = "enumerateDevices")
    => ( /\ Len(last.devices) = Cardinality(last.queryable)
         /\ {last.devices[k].m_deviceId : k \in 1 .. Len(last.devices)}
               = last.queryable
         /\ \A j, k \in 1 .. Len(last.devices) :
               (j < k) => (last.devices[j].m_deviceId < last.devices[k].m_deviceId)
         /\ \A k \in 1 .. Len(last.devices) :
               last.devices[k].name = getDeviceInfo(last.devices[k].m_deviceId).name )

\* an enumeration in which the query of the first index failed has just
\* returned the device of the second one
C32_Witness ==
    /\ last.op = "enumerateDevices"
    /\ 0 \notin last.queryable
    /\ Len(last.devices) = 1 /\ last.devices[1].m_deviceId = 1

\* C31 (zero fill), as the specification states it: a bridge invocation
\* without a user callback that is given an output buffer sets exactly the
\* bytes of that buffer to zero, and one with a user callback sets none.
C31_ZeroFillsExactlyTheBuffer ==
    (last.op = "handleAudioCallback")
    => ( last.buffer.zeroed = IF last.callback = NullCallback
                              THEN last.buffer.bytes ELSE 0 )

=============================================================================
